---------------------------- MODULE Spec2Model ----------------------------
(***************************************************************************)
(* Model of the short-video generation pipeline of backend/shorts/views.py *)
(*                                                                         *)
(*  - the crop normalizer (_normalize_crop_area),                          *)
(*  - the source resolver (_download_source_video),                        *)
(*  - the filter-graph builder (the body of process_short_video),          *)
(*  - the job runner: ShortGenerateView.post, the background _worker and   *)
(*    the stages of process_short_video.                                   *)
(*                                                                         *)
(* Python floats are modelled as exact fixed-point rationals: a crop       *)
(* coordinate c is the integer c*Q, a source duration d the integer d*Q,   *)
(* a position ratio r the integer r * 10^(RatioDigits+ExtraDigits).        *)
(***************************************************************************)
EXTENDS Integers, Sequences, FiniteSets, TLC

VARIABLES
    mode,       \* which component this behaviour exercises
    \* ---- crop normalizer
    cropIn,     \* the crop rectangle handed to _normalize_crop_area
    srcDim,     \* <<source_width, source_height>>
    cropOut,    \* result of the first call  (Pending before the call)
    cropAgain,  \* result of normalizing cropOut again (Pending before)
    \* ---- source resolver
    fetched,    \* what ydl.extract_info does: "ok", "DownloadError", "NoMetadata"
    info,       \* the metadata mapping the fetcher returned
    prepared,   \* what ydl.prepare_filename does: a path, "KeyError", "OSError"
    disk,       \* the files on disk after the fetch
    resolved,   \* result of _download_source_video (Pending before)
    \* ---- filter-graph builder
    payload,    \* run |-> the validated request data of that generation run
    sourceDim,  \* the source both runs fetch: <<source_width, source_height>>
    fonts,      \* the font files installed on the host
    graph,      \* run |-> the filter graph built for it (Pending before)
    \* ---- job runner
    records,    \* pk |-> the ShortVideo row: status, error_message, file, ...
    requests,   \* number of generate requests handled so far
    response,   \* the last response returned: status_code, the job's pk and
                \* what the reachability check of that request met
    acking,     \* the pk whose 202 response post has yet to return, or 0
    pc,         \* pk |-> where that job's worker thread stands
    exc,        \* pk |-> the exception in flight in the worker, <<>> if none
    ran,        \* pk |-> the stages that have run
    raised,     \* pk |-> the stages (and worker steps) that raised
    source_duration, \* pk |-> info.get("duration"): <<>> for None, else <<d>>
    scratch,    \* pk |-> the run's temporary directory: none, exists, removed
    writes      \* pk |-> the writes of the row's status made so far, in order

cropVars == <<cropIn, srcDim, cropOut, cropAgain>>
resolveVars == <<fetched, info, prepared, disk, resolved>>
filterVars == <<payload, sourceDim, fonts, graph>>
handlerVars == <<requests, response, acking>>
workerVars == <<pc, exc, ran, raised, source_duration, scratch, writes>>
jobVars == <<records, handlerVars, workerVars>>
vars == <<mode, cropVars, resolveVars, filterVars, jobVars>>

---------------------------------------------------------------------------
(* Bounds of the model *)

\* fixed-point resolution of crop coordinates and durations: 1/Q
Q == 2
\* source frames are 2..MaxDim pixels wide and high
MaxDim == 3
\* the metadata lists at most MaxDownloads requested_downloads entries
MaxDownloads == 2
\* media files are 1..MaxSize bytes long
MaxSize == 2
\* position ratios carry ExtraDigits decimal digits after the printed ones
ExtraDigits == 1
\* at most MaxRequests generate requests arrive
MaxRequests == 3
\* requests ask for start_time 0..MaxStart and duration up to MaxDuration
MaxStart == 1
MaxDuration == 2

---------------------------------------------------------------------------
(* Program constants *)

\* f"{ratio:.6f}"
RatioDigits == 6

---------------------------------------------------------------------------
(* Python helpers *)

Max(a, b) == IF a >= b THEN a ELSE b
Min(a, b) == IF a <= b THEN a ELSE b

\* n/q rounded to the nearest integer, ties to even (n >= 0, q > 0): the
\* rounding of Python's round() and of the "f" format
RoundHalfEven(n, q) ==
    LET fl  == n \div q
        rem == n % q
    IN  IF 2 * rem < q THEN fl
        ELSE IF 2 * rem > q THEN fl + 1
        ELSE IF fl % 2 = 0 THEN fl ELSE fl + 1

\* Python's round() of the float n/Q
PyRound(n) == RoundHalfEven(n, Q)

RECURSIVE Pow10(_)
Pow10(k) == IF k = 0 THEN 1 ELSE 10 * Pow10(k - 1)

\* Python's None, where a string is expected and where a mapping is
None == "None"
NoneMapping == [none |-> TRUE]
\* a result not yet computed; a computed result r is held as <<r>>
Pending == <<>>

---------------------------------------------------------------------------
(* CropNormalizer: views.py _normalize_crop_area *)

\* the final re-clamp of left/top (views.py 250-253)
ReclampNone(origin, size, source) == origin
Reclamp(origin, size, source) ==
    IF origin + size > source THEN Max(0, source - size) ELSE origin

\* forcing a pixel extent even (views.py 242-245)
ForceEven(n) == IF n % 2 # 0 THEN n - 1 ELSE n

\* the right/bottom pixel bound, exclusive (views.py 236-237)
RightEdge(source, v) == Min(source, v)

\* an extent of at most one pixel is rejected (views.py 231-232)
TooSmallAtTwo(extent) == extent <= 2 * Q
TooSmall(extent) == extent <= Q

_normalize_crop_area(crop, source_width, source_height) ==
    LET x  == Max(0, Min(crop.x, (source_width - 1) * Q))
        y  == Max(0, Min(crop.y, (source_height - 1) * Q))
        w0 == Max(Q, crop.width)
        h0 == Max(Q, crop.height)
        width  == IF x + w0 > source_width * Q
                  THEN Max(Q, source_width * Q - x) ELSE w0
        height == IF y + h0 > source_height * Q
                  THEN Max(Q, source_height * Q - y) ELSE h0
    IN  IF TooSmall(width) \/ TooSmall(height) THEN NoneMapping
        ELSE
        LET left   == PyRound(x)
            top    == PyRound(y)
            right  == RightEdge(source_width, PyRound(x + width))
            bottom == RightEdge(source_height, PyRound(y + height))
            width_int  == ForceEven(Max(2, right - left))
            height_int == ForceEven(Max(2, bottom - top))
        IN  IF width_int < 2 \/ height_int < 2 THEN NoneMapping
            ELSE [x      |-> Reclamp(left, width_int, source_width) * Q,
                  y      |-> Reclamp(top, height_int, source_height) * Q,
                  width  |-> width_int * Q,
                  height |-> height_int * Q]

\* crop rectangles: x, y from -1/Q to MaxDim, width, height from 0 to MaxDim+1
CropCoords == (0 - 1) .. (MaxDim * Q)
CropExtents == 0 .. ((MaxDim + 1) * Q)
CropRequests == [x : CropCoords, y : CropCoords,
                 width : CropExtents, height : CropExtents]
SourceDims == (2 .. MaxDim) \X (2 .. MaxDim)

\* process_short_video calls the normalizer on the requested crop
Normalize ==
    /\ mode = "crop"
    /\ cropOut = Pending
    /\ cropOut' = <<_normalize_crop_area(cropIn, srcDim[1], srcDim[2])>>
    /\ UNCHANGED <<mode, cropIn, srcDim, cropAgain, resolveVars, filterVars, jobVars>>

\* a later run hands the normalized rectangle to the normalizer again
Renormalize ==
    /\ mode = "crop"
    /\ cropOut # Pending
    /\ cropOut[1] # NoneMapping
    /\ cropAgain = Pending
    /\ cropAgain' = <<_normalize_crop_area(cropOut[1], srcDim[1], srcDim[2])>>
    /\ UNCHANGED <<mode, cropIn, srcDim, cropOut, resolveVars, filterVars, jobVars>>

---------------------------------------------------------------------------
(* SourceResolver: views.py _download_source_video *)

\* path strings the fetcher may report; "a.mp4" is relative
PathStrings == {"a.mp4", "/scratch/b.webm"}
is_absolute(p) == p # "a.mp4"
\* temp_path / candidate, resolved
JoinScratch(p) == IF p = "a.mp4" THEN "/scratch/a.mp4" ELSE p

\* the media files the fetcher may leave in the scratch directory
MediaFiles == {"/scratch/a.mp4", "/scratch/b.webm"}
\* other entries of the scratch directory: an in-progress download, the
\* sidecar metadata and a subdirectory, each larger than any media file
JunkEntries ==
    {[path |-> "/scratch/c.mp4.part",  suffix |-> ".part",      is_file |-> TRUE],
     [path |-> "/scratch/c.info.json", suffix |-> ".info.json", is_file |-> TRUE],
     [path |-> "/scratch/frags",       suffix |-> "",           is_file |-> FALSE]}

\* temp_path.iterdir(), with each entry's st_size
ScratchEntries(d) ==
    {[path |-> f, suffix |-> "media", is_file |-> TRUE, size |-> d.size[f]]
        : f \in d.present}
    \cup {[path |-> j.path, suffix |-> j.suffix, is_file |-> j.is_file,
           size |-> MaxSize + 1] : j \in JunkEntries}

exists(p, d) == p \in d.present \/ p \in {j.path : j \in JunkEntries}

\* views.py 102-108: one path per requested_downloads entry
EntryPath(entry) ==
    IF entry.filepath # None THEN entry.filepath ELSE entry._filename

RECURSIVE RequestedPaths(_)
RequestedPaths(entries) ==
    IF entries = <<>> THEN <<>>
    ELSE (IF EntryPath(Head(entries)) # None
          THEN <<EntryPath(Head(entries))>> ELSE <<>>)
         \o RequestedPaths(Tail(entries))

\* views.py 110-113: top-level _filename, filename, filepath
TopLevelPaths(i) ==
    (IF i._filename # None THEN <<i._filename>> ELSE <<>>)
    \o (IF i.filename # None THEN <<i.filename>> ELSE <<>>)
    \o (IF i.filepath # None THEN <<i.filepath>> ELSE <<>>)

\* views.py 115-122: the prepare-filename result goes first (insert(0, ..))
WithPreparedLast(prep, paths) == paths \o <<prep>>
WithPrepared(prep, paths) == <<prep>> \o paths

\* views.py 100-122, for a prepare_filename that did not raise OSError
CandidatePaths(i, prep) ==
    LET declared == RequestedPaths(i.requested_downloads) \o TopLevelPaths(i)
    IN  IF prep = "KeyError" THEN declared ELSE WithPrepared(prep, declared)

\* views.py 124-136: skip strings already seen, resolve relative candidates
\* against the scratch directory, stop at the first that exists
RECURSIVE FirstExisting(_, _, _)
FirstExisting(candidates, seen, d) ==
    IF candidates = <<>> THEN None
    ELSE LET candidate == Head(candidates)
             candidate_path == IF is_absolute(candidate) THEN candidate
                               ELSE JoinScratch(candidate)
         IN  IF candidate \in seen
             THEN FirstExisting(Tail(candidates), seen, d)
             ELSE IF exists(candidate_path, d) THEN candidate_path
             ELSE FirstExisting(Tail(candidates), seen \cup {candidate}, d)

\* views.py 139-145
FallbackFilesAll(d) == {e \in ScratchEntries(d) : e.is_file}
FallbackFiles(d) ==
    {e \in ScratchEntries(d) :
        e.is_file /\ e.suffix # ".part" /\ e.suffix # ".info.json"}

\* views.py 147-148: sorted by size, largest first; iterdir() fixes no order
\* among files of the same size
LargestFirst(files) ==
    {e.path : e \in {e \in files : \A o \in files : o.size <= e.size}}

\* how a failing prepare_filename is handled (views.py 117-120)
PrepareRaises(prep) == prep = "OSError"

Failed(error) == [outcome |-> error, path |-> None, info |-> NoneMapping]
Found(p, i) == [outcome |-> "ok", path |-> p, info |-> i]

\* the results _download_source_video may return or raise
_download_source_video(f, i, prep, d) ==
    IF f = "DownloadError" THEN {Failed("DownloadFailed")}
    ELSE IF f = "NoMetadata" THEN {Failed("NoMetadata")}
    ELSE IF PrepareRaises(prep) THEN {Failed("DownloadFailed")}
    ELSE LET resolved_path == FirstExisting(CandidatePaths(i, prep), {}, d)
         IN  IF resolved_path # None THEN {Found(resolved_path, i)}
             ELSE IF FallbackFiles(d) # {}
                  THEN {Found(p, i) : p \in LargestFirst(FallbackFiles(d))}
                  ELSE {Failed("SourceNotFound")}

PathOpt == PathStrings \cup {None}
Entries == [filepath : PathOpt, _filename : PathOpt]
RECURSIVE SeqsUpTo(_, _)
SeqsUpTo(S, n) ==
    IF n = 0 THEN {<<>>}
    ELSE LET shorter == SeqsUpTo(S, n - 1)
         IN  shorter \cup {Append(q, e) : q \in {t \in shorter : Len(t) = n - 1}, e \in S}
Infos == [requested_downloads : SeqsUpTo(Entries, MaxDownloads),
          _filename : PathOpt, filename : PathOpt, filepath : PathOpt]
\* a file that is absent has no size: it is held as 1
Disks == {d \in [present : SUBSET MediaFiles, size : [MediaFiles -> 1 .. MaxSize]] :
             \A f \in MediaFiles \ d.present : d.size[f] = 1}
EmptyDisk == [present |-> {}, size |-> [f \in MediaFiles |-> 1]]

Resolve ==
    /\ mode = "resolve"
    /\ resolved = Pending
    /\ resolved' \in {<<r>> : r \in _download_source_video(fetched, info, prepared, disk)}
    /\ UNCHANGED <<mode, cropVars, fetched, info, prepared, disk, filterVars, jobVars>>

---------------------------------------------------------------------------
(* FilterGraphBuilder: ShortGenerateView.post (overlay and crop options)   *)
(* and the filter-building part of process_short_video                     *)

DEFAULT_OVERLAY_TEXT ==
    <<"M", "y", " ", "S", "h", "o", "r", "t", "s", " ", "V", "i", "d", "e", "o">>
DEFAULT_OVERLAY_FONT == "Arial"
DEFAULT_OVERLAY_COLOR == <<"#", "F", "F", "F", "F", "F", "F">>
DEFAULT_FONT_PATH == "/usr/share/fonts/truetype/dejavu/DejaVuSans-Bold.ttf"
DEFAULT_FONT_SIZE == 48
FONT_PATH_OVERRIDES == [Arial |-> "/usr/share/fonts/truetype/dejavu/DejaVuSans.ttf"]

\* a position ratio r is the integer r * RatioOne
RatioOne == Pow10(RatioDigits + ExtraDigits)

\* views.py 355-358: max(0.0, min(1.0, ratio))
ClampRatio(r) == Max(0, Min(RatioOne, r))

\* views.py 336-380: the overlay and crop options post hands to the worker.
\* An optional value is <<>> when absent and <<v>> when present.
overlay_options(data) ==
    [text  |-> IF data.overlay_text = <<>> THEN DEFAULT_OVERLAY_TEXT
               ELSE data.overlay_text,
     font  |-> DEFAULT_OVERLAY_FONT,
     color |-> DEFAULT_OVERLAY_COLOR,
     font_size |-> DEFAULT_FONT_SIZE,
     position_x_ratio |-> IF data.overlay_text_x = <<>> THEN <<>>
                          ELSE <<ClampRatio(data.overlay_text_x[1])>>,
     position_y_ratio |-> IF data.overlay_text_y = <<>> THEN <<>>
                          ELSE <<ClampRatio(data.overlay_text_y[1])>>]

crop_options(data) == data.crop

\* views.py 454-459: backslash, colon and quote each get a backslash
RECURSIVE _escape_drawtext_value(_)
_escape_drawtext_value(value) ==
    IF value = <<>> THEN <<>>
    ELSE (IF Head(value) \in {"\\", ":", "'"}
          THEN <<"\\", Head(value)>> ELSE <<Head(value)>>)
         \o _escape_drawtext_value(Tail(value))

\* f"{ratio:.6f}": the ratio rounded to RatioDigits decimals, as the count
\* of units of the last printed digit ("0.123457" is 123457)
FormatRatioTruncating(r) == r \div Pow10(ExtraDigits)
FormatRatio(r) == RoundHalfEven(r, Pow10(ExtraDigits))

\* views.py 563-580
x_expression(overlay) ==
    IF overlay.position_x_ratio # <<>>
    THEN [form |-> "min(max(w*R-text_w/2\\,0)\\,w-text_w)",
          R |-> FormatRatio(overlay.position_x_ratio[1])]
    ELSE [form |-> "(w-text_w)/2"]

y_expression(overlay) ==
    IF overlay.position_y_ratio # <<>>
    THEN [form |-> "min(max(h*R-text_h/2\\,0)\\,h-text_h)",
          R |-> FormatRatio(overlay.position_y_ratio[1])]
    ELSE [form |-> "50"]

\* views.py 531-541: the crop stage, when a crop was asked for and the
\* normalizer returned a rectangle; <<>> otherwise
crop_filter_raw(crop, source_width, source_height) ==
    IF crop = NoneMapping THEN <<>>
    ELSE <<[filter |-> "crop",
            w |-> Max(2, PyRound(crop.width)),
            h |-> Max(2, PyRound(crop.height)),
            x |-> Max(0, PyRound(crop.x)),
            y |-> Max(0, PyRound(crop.y))]>>
crop_filter(crop, source_width, source_height) ==
    IF crop = NoneMapping THEN <<>>
    ELSE LET normalized == _normalize_crop_area(crop, source_width, source_height)
         IN  IF normalized = NoneMapping THEN <<>>
             ELSE <<[filter |-> "crop",
                     w |-> Max(2, PyRound(normalized.width)),
                     h |-> Max(2, PyRound(normalized.height)),
                     x |-> Max(0, PyRound(normalized.x)),
                     y |-> Max(0, PyRound(normalized.y))]>>

\* views.py 545-548: the colour without its leading "#", white unless six
\* characters are left, upper-cased, after "0x"
RECURSIVE lstrip(_, _)
lstrip(value, char) ==
    IF value # <<>> /\ Head(value) = char THEN lstrip(Tail(value), char) ELSE value

upper(value) ==
    LET up == [a |-> "A", b |-> "B", c |-> "C", d |-> "D", e |-> "E", f |-> "F"]
    IN  [k \in DOMAIN value |->
            IF value[k] \in DOMAIN up THEN up[value[k]] ELSE value[k]]

fontcolor_value(color) ==
    LET color_value == lstrip(color, "#")
    IN  <<"0", "x">> \o upper(IF Len(color_value) # 6
                              THEN <<"F", "F", "F", "F", "F", "F">>
                              ELSE color_value)

\* views.py 550-553: the font's file, or the default font when that file
\* is not installed
font_path(font, installed) ==
    LET mapped == IF font \in DOMAIN FONT_PATH_OVERRIDES
                  THEN FONT_PATH_OVERRIDES[font] ELSE DEFAULT_FONT_PATH
    IN  IF mapped \in installed THEN mapped ELSE DEFAULT_FONT_PATH

\* views.py 555-561
font_size_value(font_size) ==
    IF font_size <= 0 THEN DEFAULT_FONT_SIZE ELSE font_size

\* views.py 598-606
text_overlay(overlay, installed) ==
    [filter      |-> "drawtext",
     text        |-> _escape_drawtext_value(overlay.text),
     fontfile    |-> font_path(overlay.font, installed),
     fontsize    |-> font_size_value(overlay.font_size),
     fontcolor   |-> fontcolor_value(overlay.color),
     x           |-> x_expression(overlay),
     y           |-> y_expression(overlay),
     shadow      |-> "shadowcolor=black:shadowx=2:shadowy=2"]

\* views.py 582-608: the stages, which ",".join makes the -vf argument
video_filters(overlay, crop, source_width, source_height, installed) ==
    LET cropped == crop_filter(crop, source_width, source_height)
    IN  (IF cropped # <<>>
         THEN cropped \o
              <<[filter |-> "scale=1080:1920:force_original_aspect_ratio=decrease"],
                [filter |-> "pad=1080:1920:(1080-iw)/2:(1920-ih)/2"],
                [filter |-> "setsar=1"]>>
         ELSE <<[filter |-> "scale=1080:1920:force_original_aspect_ratio=increase"],
                [filter |-> "crop=1080:1920"],
                [filter |-> "setsar=1"]>>)
        \o <<text_overlay(overlay, installed)>>

Runs == {1, 2}

\* the ratios drawn: a few leading digit groups, every trailing digit
RatioHeads == {0, 499999, 999999}
Ratios == {h * Pow10(ExtraDigits) + t : h \in RatioHeads, t \in 0 .. (Pow10(ExtraDigits) - 1)}
            \cup {RatioOne}
Texts == {<<>>, <<"a", ":", "'", "\\">>}
\* the crop of scenario B, one the normalizer rejects, and none
Crops == {NoneMapping,
          [x |-> 100 * Q, y |-> 50 * Q, width |-> 301 * Q, height |-> 401 * Q],
          [x |-> 0, y |-> 0, width |-> Q, height |-> 401 * Q]}
\* requests without position ratios
BasePayloads ==
    {[overlay_text |-> t, overlay_text_x |-> <<>>, overlay_text_y |-> <<>>,
      crop |-> c] : t \in Texts, c \in Crops}

Head6(r) == r \div Pow10(ExtraDigits)
Tails == 0 .. (Pow10(ExtraDigits) - 1)

\* data with the ratio of one axis set
WithRatio(data, axis, r) ==
    IF axis = "x" THEN [data EXCEPT !.overlay_text_x = <<r>>]
    ELSE [data EXCEPT !.overlay_text_y = <<r>>]

\* one generation run: post builds the options, the worker the graph
BuildFilters(r) ==
    /\ mode = "filter"
    /\ graph[r] = Pending
    /\ r > 1 => graph[r - 1] # Pending
    /\ graph' = [graph EXCEPT ![r] =
            <<video_filters(overlay_options(payload[r]), crop_options(payload[r]),
                            sourceDim[1], sourceDim[2], fonts)>>]
    /\ UNCHANGED <<mode, cropVars, resolveVars, payload, sourceDim, fonts, jobVars>>

---------------------------------------------------------------------------
(* JobRunner: ShortGenerateView.post, _start_background_processing,        *)
(* _worker and the stages of process_short_video                           *)

\* the model follows the first accepted job: a worker reads and writes only
\* the row of its own pk, so jobs share no state
JobIds == {1}

STATUS_PROCESSING == "processing"
STATUS_COMPLETED == "completed"
STATUS_FAILED == "failed"

\* the messages of the errors the stages raise
FfmpegMissing == "ffmpeg binary not found. Please install ffmpeg."
DownloadFailed == "Failed to download source video"
NoMetadata == "Failed to retrieve metadata for the source video."
SourceNotFound == "Downloaded source video was not found. Try again with a different URL."
DimensionsUnavailable == "Unable to determine source video dimensions."
WindowExceedsSource == "Requested start time and duration exceed the source video length."
TranscodeFailed == "ffmpeg failed"
\* errors of the environment: the file system and the database
OSErrorMessage == "OSError"
DatabaseError == "DatabaseError"
\* an exception whose str() is empty
EmptyMessage == ""

\* serializers.py 22-23: duration >= 1, start_time >= 0
is_valid(data) == data.duration >= 1 /\ data.start_time >= 0

\* views.py 651-655: the TCP connect succeeds, or raises OSError
can_reach_youtube(socket) == socket = "connected"

\* the status of a job that is not yet being processed (spec: pending)
STATUS_PENDING == "pending"

\* views.py 382-387: ShortVideo.objects.create(...)
NewRowPending(data) ==
    [status |-> STATUS_PENDING, error_message |-> "", file |-> None,
     start_time |-> data.start_time, duration |-> data.duration]
NewRow(data) ==
    [status |-> STATUS_PROCESSING, error_message |-> "", file |-> None,
     start_time |-> data.start_time, duration |-> data.duration]

\* views.py 319-391, up to the thread's start: the status of the response,
\* what the reachability check met ("untried" when it was not made), the
\* rows afterwards and the pk of the worker started (0 when none is)
post_no_dispatch(data, socket, rows) ==
    IF ~is_valid(data)
    THEN [status_code |-> 400, connect |-> "untried", rows |-> rows, started |-> 0]
    ELSE IF ~can_reach_youtube(socket)
    THEN [status_code |-> 503, connect |-> socket, rows |-> rows, started |-> 0]
    ELSE [status_code |-> 202, connect |-> socket,
          rows |-> Append(rows, NewRow(data)), started |-> 0]
post_create_first(data, socket, rows) ==
    IF ~is_valid(data)
    THEN [status_code |-> 400, connect |-> "untried", rows |-> rows, started |-> 0]
    ELSE IF ~can_reach_youtube(socket)
    THEN [status_code |-> 503, connect |-> socket,
          rows |-> Append(rows, NewRow(data)), started |-> 0]
    ELSE [status_code |-> 202, connect |-> socket,
          rows |-> Append(rows, NewRow(data)), started |-> Len(rows) + 1]
post(data, socket, rows) ==
    IF ~is_valid(data)
    THEN [status_code |-> 400, connect |-> "untried", rows |-> rows, started |-> 0]
    ELSE IF ~can_reach_youtube(socket)
    THEN [status_code |-> 503, connect |-> socket, rows |-> rows, started |-> 0]
    ELSE [status_code |-> 202, connect |-> socket,
          rows |-> Append(rows, NewRow(data)), started |-> Len(rows) + 1]

RequestData == [start_time : 0 .. MaxStart, duration : 0 .. MaxDuration]

\* a generate request arrives: validation, the reachability check, the row
\* and Thread(...).start(); a refusal is answered at once
Post ==
    /\ mode = "jobs"
    /\ requests < MaxRequests
    /\ acking = 0
    /\ \E data \in RequestData, socket \in {"connected", "OSError"} :
          LET r == post(data, socket, records)
          IN  /\ DOMAIN r.rows \subseteq JobIds
              /\ records' = r.rows
              /\ requests' = requests + 1
              /\ acking' = r.started
              /\ pc' = IF r.started # 0 THEN [pc EXCEPT ![r.started] = "get"] ELSE pc
              /\ response' = IF r.started # 0 THEN response
                             ELSE [status_code |-> r.status_code, pk |-> 0,
                                   connect |-> r.connect]
    /\ UNCHANGED <<exc, ran, raised, source_duration, scratch, writes>>
    /\ UNCHANGED <<cropVars, resolveVars, filterVars, mode>>

\* views.py 390-391: post returns 202 with the serialized row
Respond ==
    /\ mode = "jobs"
    /\ acking # 0
    /\ response' = [status_code |-> 202, pk |-> acking, connect |-> "connected"]
    /\ acking' = 0
    /\ UNCHANGED <<records, requests, workerVars>>
    /\ UNCHANGED <<cropVars, resolveVars, filterVars, mode>>

\* a stage of the worker ends without an error
Proceed(j, stage, next) ==
    /\ pc' = [pc EXCEPT ![j] = next]
    /\ ran' = [ran EXCEPT ![j] = @ \cup {stage}]
    /\ UNCHANGED <<exc, raised>>

\* a stage raises: the error is in flight and control goes to the handler
Raise(j, stage, message, handler) ==
    /\ pc' = [pc EXCEPT ![j] = handler]
    /\ ran' = [ran EXCEPT ![j] = @ \cup {stage}]
    /\ exc' = [exc EXCEPT ![j] = <<message>>]
    /\ raised' = [raised EXCEPT ![j] = @ \cup {stage}]

Untouched == <<cropVars, resolveVars, filterVars, mode, handlerVars>>

\* views.py 402: ShortVideo.objects.get(pk=short_id)
GetRow(j) ==
    /\ pc[j] = "get"
    /\ \/ Proceed(j, "get", "resolve_ffmpeg")
       \/ Raise(j, "get", DatabaseError, "except")
    /\ UNCHANGED <<records, source_duration, scratch, writes, Untouched>>

\* views.py 510: resolve_ffmpeg_path(), before the scratch directory exists
ResolveFfmpeg(j) ==
    /\ pc[j] = "resolve_ffmpeg"
    /\ \/ Proceed(j, "resolve_ffmpeg", "mkdtemp")
       \/ Raise(j, "resolve_ffmpeg", FfmpegMissing, "except")
    /\ UNCHANGED <<records, source_duration, scratch, writes, Untouched>>

\* views.py 512: tempfile.TemporaryDirectory() creates the scratch directory
EnterScratch(j) ==
    /\ pc[j] = "mkdtemp"
    /\ \/ /\ Proceed(j, "mkdtemp", "download")
          /\ scratch' = [scratch EXCEPT ![j] = "exists"]
       \/ /\ Raise(j, "mkdtemp", OSErrorMessage, "except")
          /\ UNCHANGED scratch
    /\ UNCHANGED <<records, source_duration, writes, Untouched>>

\* the durations a source may report, in units of 1/Q, and None
SourceDurations == {<<>>} \cup {<<d>> : d \in 0 .. ((MaxStart + MaxDuration) * Q)}

\* views.py 515: _download_source_video; info carries the source's duration
Download(j) ==
    /\ pc[j] = "download"
    /\ \/ /\ Proceed(j, "download", "dimensions")
          /\ \E d \in SourceDurations :
                source_duration' = [source_duration EXCEPT ![j] = d]
       \/ /\ \E m \in {DownloadFailed, NoMetadata, SourceNotFound, EmptyMessage} :
                Raise(j, "download", m, "cleanup")
          /\ UNCHANGED source_duration
    /\ UNCHANGED <<records, scratch, writes, Untouched>>

\* views.py 516: _extract_video_dimensions
Dimensions(j) ==
    /\ pc[j] = "dimensions"
    /\ \/ Proceed(j, "dimensions", "window")
       \/ Raise(j, "dimensions", DimensionsUnavailable, "cleanup")
    /\ UNCHANGED <<records, source_duration, scratch, writes, Untouched>>

\* Python's int() of the float d/Q, d >= 0
int(d) == d \div Q

\* views.py 519-522: the window is checked when a duration is known
exceeds_source_inclusive(row, duration) ==
    duration # <<>> /\ row.start_time + row.duration >= int(duration[1])
exceeds_source(row, duration) ==
    duration # <<>> /\ row.start_time + row.duration > int(duration[1])

\* views.py 518-525
Window(j) ==
    /\ pc[j] = "window"
    /\ IF exceeds_source(records[j], source_duration[j])
       THEN Raise(j, "window", WindowExceedsSource, "cleanup")
       ELSE Proceed(j, "window", "transcode")
    /\ UNCHANGED <<records, source_duration, scratch, writes, Untouched>>

\* views.py 527-637: the filter graph is built and ffmpeg is run
Transcode(j) ==
    /\ pc[j] = "transcode"
    /\ \/ Proceed(j, "transcode", "save_file")
       \/ Raise(j, "transcode", TranscodeFailed, "cleanup")
    /\ UNCHANGED <<records, source_duration, scratch, writes, Untouched>>

\* views.py 640-644: the artifact goes to media storage; the row is not
\* written (save=False)
SaveFile(j) ==
    /\ pc[j] = "save_file"
    /\ \/ Proceed(j, "save_file", "save_record")
       \/ Raise(j, "save_file", OSErrorMessage, "cleanup")
    /\ UNCHANGED <<records, source_duration, scratch, writes, Untouched>>

\* views.py 646-648: short.save(update_fields=[file, status, error_message, ..])
SaveRecord(j) ==
    /\ pc[j] = "save_record"
    /\ \/ /\ Proceed(j, "save_record", "cleanup")
          /\ records' = [records EXCEPT ![j].status = STATUS_COMPLETED,
                                        ![j].error_message = "",
                                        ![j].file = "artifact"]
          /\ writes' = [writes EXCEPT ![j] = Append(@, STATUS_COMPLETED)]
       \/ /\ Raise(j, "save_record", DatabaseError, "cleanup")
          /\ UNCHANGED <<records, writes>>
    /\ UNCHANGED <<source_duration, scratch, Untouched>>

\* views.py 512: leaving the with block removes the scratch directory; an
\* error of the removal replaces the one in flight
CleanupKeeps(j) ==
    /\ pc[j] = "cleanup"
    /\ \/ /\ pc' = [pc EXCEPT ![j] = IF exc[j] = <<>> THEN "done" ELSE "except"]
          /\ ran' = [ran EXCEPT ![j] = @ \cup {"cleanup"}]
          /\ UNCHANGED <<exc, raised, scratch>>
       \/ /\ Raise(j, "cleanup", OSErrorMessage, "except")
          /\ UNCHANGED scratch
    /\ UNCHANGED <<records, source_duration, writes, Untouched>>
Cleanup(j) ==
    /\ pc[j] = "cleanup"
    /\ \/ /\ pc' = [pc EXCEPT ![j] = IF exc[j] = <<>> THEN "done" ELSE "except"]
          /\ ran' = [ran EXCEPT ![j] = @ \cup {"cleanup"}]
          /\ scratch' = [scratch EXCEPT ![j] = "removed"]
          /\ UNCHANGED <<exc, raised>>
       \/ /\ Raise(j, "cleanup", OSErrorMessage, "except")
          /\ UNCHANGED scratch
    /\ UNCHANGED <<records, source_duration, writes, Untouched>>

\* views.py 408: str(exc) or "Short generation failed."
failure_message(message) ==
    IF message = "" THEN "Short generation failed." ELSE message

\* views.py 404-410: the except clause of _worker writes the failure
Except(j) ==
    /\ pc[j] = "except"
    /\ \/ /\ Proceed(j, "except", "done")
          /\ records' = [records EXCEPT ![j].status = STATUS_FAILED,
                                        ![j].error_message = failure_message(exc[j][1])]
          /\ writes' = [writes EXCEPT ![j] = Append(@, STATUS_FAILED)]
       \/ /\ Raise(j, "except", DatabaseError, "done")
          /\ UNCHANGED <<records, writes>>
    /\ UNCHANGED <<source_duration, scratch, Untouched>>

---------------------------------------------------------------------------
(* Specifications: one per component, each leaving the others idle *)

CropIdle ==
    /\ cropIn = NoneMapping
    /\ srcDim = <<2, 2>>
    /\ cropOut = Pending
    /\ cropAgain = Pending

ResolveIdle ==
    /\ fetched = "ok"
    /\ info = NoneMapping
    /\ prepared = "KeyError"
    /\ disk = EmptyDisk
    /\ resolved = Pending

FilterIdle ==
    /\ payload = <<>>
    /\ sourceDim = <<2, 2>>
    /\ fonts = {}
    /\ graph = <<>>

JobsIdle ==
    /\ records = <<>>
    /\ requests = 0
    /\ response = [status_code |-> 0, pk |-> 0, connect |-> "untried"]
    /\ acking = 0
    /\ pc = [j \in JobIds |-> "idle"]
    /\ exc = [j \in JobIds |-> <<>>]
    /\ ran = [j \in JobIds |-> {}]
    /\ raised = [j \in JobIds |-> {}]
    /\ source_duration = [j \in JobIds |-> <<>>]
    /\ scratch = [j \in JobIds |-> "none"]
    /\ writes = [j \in JobIds |-> <<>>]

\* the job runner: no job has been requested yet
Init ==
    /\ mode = "jobs"
    /\ CropIdle
    /\ ResolveIdle
    /\ FilterIdle
    /\ JobsIdle

\* the request handler and the worker threads (views.py 399-412) interleave
Next ==
    \/ Post
    \/ Respond
    \/ \E j \in JobIds : GetRow(j)
    \/ \E j \in JobIds : ResolveFfmpeg(j)
    \/ \E j \in JobIds : EnterScratch(j)
    \/ \E j \in JobIds : Download(j)
    \/ \E j \in JobIds : Dimensions(j)
    \/ \E j \in JobIds : Window(j)
    \/ \E j \in JobIds : Transcode(j)
    \/ \E j \in JobIds : SaveFile(j)
    \/ \E j \in JobIds : SaveRecord(j)
    \/ \E j \in JobIds : Cleanup(j)
    \/ \E j \in JobIds : Except(j)

Spec == Init /\ [][Next]_vars

InitCrop ==
    /\ mode = "crop"
    /\ cropIn \in CropRequests
    /\ srcDim \in SourceDims
    /\ cropOut = Pending
    /\ cropAgain = Pending
    /\ ResolveIdle
    /\ FilterIdle
    /\ JobsIdle

NextCrop == Normalize \/ Renormalize

SpecCrop == InitCrop /\ [][NextCrop]_vars

InitResolve ==
    /\ mode = "resolve"
    /\ CropIdle
    /\ FilterIdle
    /\ JobsIdle
    /\ resolved = Pending
    /\ \/ /\ fetched = "ok"
          /\ info \in Infos
          /\ prepared \in PathStrings \cup {"KeyError", "OSError"}
          /\ disk \in Disks
       \/ /\ fetched \in {"DownloadError", "NoMetadata"}
          /\ info = NoneMapping
          /\ prepared = "KeyError"
          /\ disk = EmptyDisk

SpecResolve == InitResolve /\ [][Resolve]_vars

InitFilter ==
    /\ mode = "filter"
    /\ CropIdle
    /\ ResolveIdle
    /\ JobsIdle
    /\ sourceDim = <<1920, 1080>>
    /\ fonts \in {{DEFAULT_FONT_PATH},
                 {DEFAULT_FONT_PATH, FONT_PATH_OVERRIDES[DEFAULT_OVERLAY_FONT]}}
    \* two runs of the same request, or of requests that differ only in the
    \* digits of one position ratio after the RatioDigits-th
    /\ \E base \in BasePayloads :
          \/ payload = <<base, base>>
          \/ \E axis \in {"x", "y"}, r \in Ratios, t \in Tails :
                /\ Head6(r) * Pow10(ExtraDigits) + t <= RatioOne
                /\ payload = <<WithRatio(base, axis, r),
                               WithRatio(base, axis, Head6(r) * Pow10(ExtraDigits) + t)>>
    /\ graph = [r \in Runs |-> Pending]

NextFilter == \E r \in Runs : BuildFilters(r)

SpecFilter == InitFilter /\ [][NextFilter]_vars

---------------------------------------------------------------------------
(* Claims about the crop normalizer *)

IsWhole(n) == n % Q = 0

\* C4: for source dimensions >= 2 and any crop rectangle the normalizer
\* returns None or a rectangle with even integer width and height >= 2,
\* 0 <= x, 0 <= y, x + width <= source_width, y + height <= source_height.
C4_NormalizedCropInBounds ==
    (cropOut # Pending /\ cropOut[1] # NoneMapping) =>
        LET r == cropOut[1] IN
        /\ IsWhole(r.x) /\ IsWhole(r.y)
        /\ IsWhole(r.width) /\ IsWhole(r.height)
        /\ (r.width \div Q) % 2 = 0 /\ (r.height \div Q) % 2 = 0
        /\ r.width >= 2 * Q /\ r.height >= 2 * Q
        /\ r.x >= 0 /\ r.y >= 0
        /\ r.x + r.width <= srcDim[1] * Q
        /\ r.y + r.height <= srcDim[2] * Q

\* an out-of-bounds, fractional request that still yields a rectangle
C4_Witness ==
    /\ cropOut # Pending /\ cropOut[1] # NoneMapping
    /\ cropIn.x + cropIn.width > srcDim[1] * Q
    /\ ~IsWhole(cropIn.y)
    /\ srcDim[1] % 2 = 1

\* C5: normalizing a rectangle the normalizer returned, against the same
\* source dimensions, returns exactly that rectangle.
C5_NormalizeIdempotent ==
    cropAgain # Pending => cropAgain[1] = cropOut[1]

\* a rectangle that touches the right edge has been normalized twice
C5_Witness ==
    /\ cropAgain # Pending
    /\ cropOut[1] # NoneMapping
    /\ cropOut[1].x > 0
    /\ cropOut[1].x + cropOut[1].width = srcDim[1] * Q

---------------------------------------------------------------------------
(* Claims about the source resolver *)

ResolveDone == mode = "resolve" /\ resolved # Pending
Target(p) == IF is_absolute(p) THEN p ELSE JoinScratch(p)
OnDisk(p) == p # None /\ exists(Target(p), disk)
\* the path a requested_downloads entry declares: its filepath, or its
\* _filename when it has no filepath
Declared(k) ==
    LET e == info.requested_downloads[k]
    IN  IF e.filepath # None THEN e.filepath ELSE e._filename
EntryIdx == IF info = NoneMapping THEN {} ELSE DOMAIN info.requested_downloads
PreparedOnDisk == prepared \in PathStrings /\ OnDisk(prepared)
SomeEntryOnDisk == \E k \in EntryIdx : OnDisk(Declared(k))
TopLevel == <<info._filename, info.filename, info.filepath>>
SomeTopLevelOnDisk == \E k \in 1 .. 3 : OnDisk(TopLevel[k])
NoDeclaredOnDisk == ~SomeEntryOnDisk /\ ~SomeTopLevelOnDisk
ReturnsPath(p) == resolved[1] = [outcome |-> "ok", path |-> p, info |-> info]

\* C8: the resolver returns the first candidate that exists on disk in the
\* order (1) the prepare-filename result, (2) the requested_downloads
\* entries as listed, (3) top-level _filename, filename, filepath; when the
\* prepare-filename query fails with a lookup error it returns the first
\* existing requested_downloads entry; the metadata is returned unchanged.
C8_CandidatePriority ==
    (ResolveDone /\ fetched = "ok" /\ prepared # "OSError") =>
        /\ PreparedOnDisk => ReturnsPath(Target(prepared))
        /\ (~PreparedOnDisk /\ SomeEntryOnDisk) =>
              \E k \in EntryIdx :
                  /\ OnDisk(Declared(k))
                  /\ \A j \in 1 .. (k - 1) : ~OnDisk(Declared(j))
                  /\ ReturnsPath(Target(Declared(k)))
        /\ (~PreparedOnDisk /\ ~SomeEntryOnDisk /\ SomeTopLevelOnDisk) =>
              \E k \in 1 .. 3 :
                  /\ OnDisk(TopLevel[k])
                  /\ \A j \in 1 .. (k - 1) : ~OnDisk(TopLevel[j])
                  /\ ReturnsPath(Target(TopLevel[k]))

\* the prepare-filename file and another declared file both exist, the
\* other one listed in requested_downloads: the prepared one is returned
C8_Witness ==
    /\ ResolveDone /\ fetched = "ok"
    /\ PreparedOnDisk
    /\ \E k \in EntryIdx :
          OnDisk(Declared(k)) /\ Target(Declared(k)) # Target(prepared)
    /\ ReturnsPath(Target(prepared))

\* the regular files of the scratch directory whose names end neither in
\* .part nor in .info.json
Eligible ==
    {e \in ScratchEntries(disk) :
        e.is_file /\ e.suffix \notin {".part", ".info.json"}}
PicksLargestOrNotFound ==
    IF Eligible = {}
    THEN resolved[1].outcome = "SourceNotFound"
    ELSE \E e \in Eligible :
            /\ \A o \in Eligible : o.size <= e.size
            /\ ReturnsPath(e.path)

---------------------------------------------------------------------------
(* Claims about the filter-graph builder *)

BothBuilt == mode = "filter" /\ graph[1] # Pending /\ graph[2] # Pending
\* the axis on which the two requests carry a ratio, and the two ratios
VariedRatios ==
    IF payload[1].overlay_text_x # <<>>
    THEN <<payload[1].overlay_text_x[1], payload[2].overlay_text_x[1]>>
    ELSE <<payload[1].overlay_text_y[1], payload[2].overlay_text_y[1]>>
HasRatio == payload[1].overlay_text_x # <<>> \/ payload[1].overlay_text_y # <<>>
\* the digits of a ratio after the RatioDigits-th, and half a unit of the
\* RatioDigits-th digit, in units of the last digit carried
Trailing(r) == r % Pow10(ExtraDigits)
HalfUnit == Pow10(ExtraDigits) \div 2
\* the ratio printed in the position expression of a built graph
Printed(g) ==
    LET t == g[Len(g)]
    IN  IF payload[1].overlay_text_x # <<>> THEN t.x.R ELSE t.y.R

\* C10 as stated: two runs whose requests differ only in the digits of a
\* position ratio beyond the 6th build identical filter graphs.
C10_TrailingDigitsIgnored ==
    BothBuilt => graph[1] = graph[2]

\* C10 as amended: the ratio is rounded to 6 decimals, not cut; the graphs
\* of two such runs are identical when the trailing digits of both ratios
\* lie on the same side of half a unit of the 6th digit, and otherwise the
\* printed ratios differ by one unit of the 6th digit.
C10_RoundedToSixDigits ==
    (BothBuilt /\ HasRatio) =>
        LET t1 == Trailing(VariedRatios[1])
            t2 == Trailing(VariedRatios[2])
        IN  /\ (t1 < HalfUnit /\ t2 < HalfUnit) => graph[1] = graph[2]
            /\ (t1 > HalfUnit /\ t2 > HalfUnit) => graph[1] = graph[2]
            /\ (t1 < HalfUnit /\ t2 > HalfUnit) =>
                   /\ graph[1] # graph[2]
                   /\ Printed(graph[2][1]) = Printed(graph[1][1]) + 1

\* two different ratios below half a unit yield the same graph
C10_Witness ==
    /\ BothBuilt /\ HasRatio
    /\ VariedRatios[1] # VariedRatios[2]
    /\ Trailing(VariedRatios[1]) < HalfUnit
    /\ Trailing(VariedRatios[2]) < HalfUnit
    /\ Trailing(VariedRatios[2]) > 0
    /\ graph[1] = graph[2]

\* the rectangle the normalizer returns for the crop of run r, if any
NormalizedFor(r) ==
    IF payload[r].crop = NoneMapping THEN NoneMapping
    ELSE _normalize_crop_area(payload[r].crop, sourceDim[1], sourceDim[2])
\* the names of the stages of a graph, in order, the last one left out
Geometry(g) == [k \in 1 .. (Len(g) - 1) |-> g[k].filter]
CropFitPad == <<"crop", "scale=1080:1920:force_original_aspect_ratio=decrease",
                "pad=1080:1920:(1080-iw)/2:(1920-ih)/2", "setsar=1">>
Cover == <<"scale=1080:1920:force_original_aspect_ratio=increase",
           "crop=1080:1920", "setsar=1">>

\* C14: the graph crops to the normalized rectangle, scales down to fit,
\* pads to 1080x1920 and sets the sample aspect ratio exactly when a crop
\* was requested and the normalizer returned a rectangle; otherwise it is
\* built all the same, with the cover geometry (scale up, crop 1080x1920,
\* setsar); in both cases the text overlay is the one last stage.
C14_CropOrCoverGeometry ==
    \A r \in Runs :
        (mode = "filter" /\ graph[r] # Pending) =>
            LET g == graph[r][1]
                n == NormalizedFor(r)
            IN  /\ Len(g) >= 1
                /\ g[Len(g)].filter = "drawtext"
                /\ \A k \in 1 .. (Len(g) - 1) : g[k].filter # "drawtext"
                /\ IF n # NoneMapping
                   THEN /\ Geometry(g) = CropFitPad
                        /\ g[1].w * Q = n.width /\ g[1].h * Q = n.height
                        /\ g[1].x * Q = n.x /\ g[1].y * Q = n.y
                   ELSE Geometry(g) = Cover

\* a run was asked for a crop that the normalizer shrank to even extents,
\* and its graph crops to the shrunk rectangle
C14_Witness ==
    /\ BothBuilt
    /\ \E r \in Runs :
          /\ NormalizedFor(r) # NoneMapping
          /\ NormalizedFor(r).width # payload[r].crop.width
          /\ Geometry(graph[r][1]) = CropFitPad

---------------------------------------------------------------------------
(* Claims about the job runner *)

Terminal == {STATUS_COMPLETED, STATUS_FAILED}
Jobs == DOMAIN records
WorkerEnded(j) == pc[j] = "done"
\* the stages C1 names: ffmpeg lookup, fetch, probe, window check,
\* transcode, artifact save, record save, scratch-directory cleanup
NamedStages == {"resolve_ffmpeg", "download", "dimensions", "window",
                "transcode", "save_file", "save_record", "cleanup"}

\* C1: for every accepted job, whatever the outcome of each named stage,
\* exactly one write sets the row's status to completed or failed.
C1_ExactlyOneTerminalWrite ==
    \A j \in Jobs :
        (WorkerEnded(j) /\ raised[j] \subseteq NamedStages) => Len(writes[j]) = 1

\* C2: once a row is completed or failed, no later step of the worker
\* changes its status, error message or artifact reference.
C2_TerminalRowImmutable ==
    [][\A j \in Jobs :
          records[j].status \in Terminal =>
              /\ records'[j].status = records[j].status
              /\ records'[j].error_message = records[j].error_message
              /\ records'[j].file = records[j].file]_vars

\* C3: a failed row has a non-empty error message and no artifact; a
\* completed row has an artifact and an empty error message.
C3_TerminalRowShape ==
    \A j \in Jobs :
        /\ records[j].status = STATUS_FAILED =>
              records[j].error_message # "" /\ records[j].file = None
        /\ records[j].status = STATUS_COMPLETED =>
              records[j].file # None /\ records[j].error_message = ""

\* requested_end > d, for the float d = duration[1]/Q
EndsAfterSource(row, duration) ==
    duration # <<>> /\ (row.start_time + row.duration) * Q > duration[1]

\* C6: once fetch and probe have succeeded, the window check raises the
\* window-exceeds-source error exactly when a source duration d is known
\* and start_time + duration > d (d possibly fractional); it raises nothing
\* when no duration is known; after it has raised the transcoder is never
\* run, and the job ends failed with that error (when neither the removal
\* of the scratch directory nor the failure write raises in turn); no job
\* carries that error otherwise.
C6_WindowCheck ==
    \A j \in Jobs :
        /\ "window" \in ran[j] =>
              /\ "window" \in raised[j]
                    <=> EndsAfterSource(records[j], source_duration[j])
              /\ "window" \in raised[j] => "transcode" \notin ran[j]
              /\ (WorkerEnded(j) /\ raised[j] = {"window"}) =>
                    /\ records[j].status = STATUS_FAILED
                    /\ records[j].error_message = WindowExceedsSource
        /\ records[j].error_message = WindowExceedsSource =>
              /\ "window" \in raised[j]
              /\ EndsAfterSource(records[j], source_duration[j])

\* a job ended failed with the window error against a fractional duration
\* that int() cuts to a whole number of seconds
C6_Witness ==
    \E j \in Jobs :
        /\ WorkerEnded(j)
        /\ records[j].status = STATUS_FAILED
        /\ records[j].error_message = WindowExceedsSource
        /\ source_duration[j] # <<>>
        /\ source_duration[j][1] % Q # 0
        /\ (records[j].start_time + records[j].duration) * Q - source_duration[j][1] < Q

\* C7: a request whose reachability check fails is answered 503 at once;
\* the rows are unchanged and no worker is started.
C7_UnreachableCreatesNoJob ==
    [][(requests' = requests + 1 /\ acking' = 0 /\ response'.connect = "OSError") =>
          /\ response'.status_code = 503
          /\ records' = records
          /\ pc' = pc]_vars

\* a request was refused for unreachability while a job's row existed
C7_Witness ==
    /\ response.status_code = 503
    /\ response.connect = "OSError"
    /\ Jobs # {}

---------------------------------------------------------------------------
(* Claims about the handler and the worker thread running side by side *)

\* the stages in which the worker fetches or transcodes
WorkStages == {"download", "dimensions", "window", "transcode"}
\* the acknowledgment of job j is still to be produced
AckDue(j) == acking = j

\* C11 as stated: in no interleaving of the request handler and the worker
\* thread has the worker started the fetch, or written a terminal status,
\* before the acknowledgment of its job is produced.
C11_AckBeforeWork ==
    \A j \in JobIds :
        AckDue(j) => /\ pc[j] \in {"get", "resolve_ffmpeg", "mkdtemp", "download"}
                     /\ ran[j] \cap WorkStages = {}
                     /\ writes[j] = <<>>

\* C11 as amended: every acknowledgment (a 202 response) names a job whose
\* record exists and whose worker has been dispatched, and the step that
\* produces it does no work of the worker and writes no record; the worker
\* thread is not ordered with it and may be at any stage by then.
C11_AckAfterDispatchOnly ==
    [][/\ response'.status_code = 202 =>
            /\ response'.pk \in DOMAIN records'
            /\ pc'[response'.pk] # "idle"
       /\ (acking # 0 /\ acking' = 0) =>
            /\ response'.pk = acking
            /\ UNCHANGED <<records, workerVars>>]_vars

\* the acknowledgment is still due although the worker has already ended
\* with a terminal status written
C11_Witness ==
    \E j \in JobIds :
        /\ AckDue(j) /\ pc[j] = "done"
        /\ "download" \in ran[j]
        /\ records[j].status \in {STATUS_COMPLETED, STATUS_FAILED}

\* the worker of job j has not taken its first step
NotYetRun(j) == ran[j] = {}

\* C12: a job record is in status processing from the moment it exists,
\* before the worker takes its first step, and no existing job record ever
\* has status pending.
C12_NeverPending ==
    \A j \in Jobs :
        /\ records[j].status # STATUS_PENDING
        /\ records[j].status \in {STATUS_PROCESSING, STATUS_COMPLETED, STATUS_FAILED}
        /\ NotYetRun(j) => records[j].status = STATUS_PROCESSING

\* a job was just accepted: its record exists, the acknowledgment is due
\* and its worker has not run yet
C12_Witness ==
    \E j \in Jobs :
        /\ NotYetRun(j) /\ pc[j] = "get" /\ AckDue(j)
        /\ records[j].status = STATUS_PROCESSING

---------------------------------------------------------------------------
(* Claims about the worker's outermost boundary and its scratch directory *)

\* C13: every error raised inside the worker (job lookup, any pipeline
\* stage, artifact or record persistence, the failure write itself) ends
\* with the job record failed; no job is left in status processing after
\* its worker has ended.
C13_AllWorkerErrorsCaught ==
    \A j \in Jobs :
        WorkerEnded(j) =>
            /\ records[j].status # STATUS_PROCESSING
            /\ raised[j] # {} => records[j].status = STATUS_FAILED

\* a step creates a scratch directory for job j only if its run had
\* created none before
CreatesAtMostOne ==
    \A j \in JobIds :
        (scratch'[j] = "exists" /\ scratch[j] # "exists") => scratch[j] = "none"

=============================================================================
